---- MODULE Spec2Model ----
(***************************************************************************)
(* ViRotator: rev_comp.py, rotate.py and triple.py as one state machine.   *)
(*                                                                         *)
(* A text is a sequence of one-character strings, a file is a sequence of  *)
(* lines (texts without their newline).  A Python dict is the sequence of  *)
(* its entries in insertion order, each entry carrying its key in .id.     *)
(* Spec runs one invocation of one of the three scripts from its command   *)
(* line to its exit; SpecConc runs several rotate.py invocations that      *)
(* share a file system.                                                    *)
(***************************************************************************)
EXTENDS Integers, Sequences, FiniteSets, TLC

VARIABLES
    pipeline,       \* which script runs: "rev_comp", "rotate" or "triple"
    file_type,      \* args.file_type
    records,        \* the records the input file was written from
    hint_rows,      \* the rows the blast file was written from
    input_file,     \* args.input_file, its lines
    blast_file,     \* args.blast_file, its lines
    pc,             \* position of the invocation in __main__
    fileDict,       \* file_dict / new_file_dict
    parsedDict,     \* file_dict as the parser returned it
    blastDict,      \* blast_dict
    idSeqRevComp,   \* id_seq_rev_comp
    idNotBlast,     \* id_seq_not_blast
    output_file,    \* args.output_file, its lines
    output_log,     \* the lines this run wrote to args.output_log
    log_name,       \* args.output_log.name
    files,          \* the rejected.count.txt files, by absolute path
    root_writable,  \* whether open() may create a file in "/"
    cpc, clog, cscen, cfd, cnot, cout, clogout   \* SpecConc: one slot per invocation

mvars == <<pipeline, file_type, records, hint_rows, input_file, blast_file, pc,
           parsedDict, fileDict, blastDict, idSeqRevComp, idNotBlast, output_file,
           output_log, log_name>>
cvars == <<cpc, clog, cscen, cfd, cnot, cout, clogout>>
vars == <<mvars, files, root_writable, cvars>>

(* Bounds of the model. *)
MaxRecords == 2
MaxRows == 3
MaxProcs == 2

SeqsUpTo(S, n) == UNION {[1..k -> S] : k \in 0..n}
InSeq(x, s) == \E i \in 1..Len(s) : s[i] = x

(***************************************************************************)
(* Python string operations.                                               *)
(***************************************************************************)
IsSpace(c) == c \in {" ", "\t", "\n"}

RECURSIVE LStrip(_)
LStrip(s) == IF s # <<>> /\ IsSpace(Head(s)) THEN LStrip(Tail(s)) ELSE s

RECURSIVE RStrip(_)
RStrip(s) ==
    IF s # <<>> /\ IsSpace(s[Len(s)]) THEN RStrip(SubSeq(s, 1, Len(s) - 1)) ELSE s

\* str.strip()
Strip(s) == RStrip(LStrip(s))

\* str.replace(ch, "")
Replace(s, ch) == SelectSeq(s, LAMBDA c : c # ch)

RECURSIVE TakeToken(_)
TakeToken(s) ==
    IF s = <<>> \/ IsSpace(Head(s)) THEN <<>>
    ELSE <<Head(s)>> \o TakeToken(Tail(s))

\* str.split()[0]; the empty text stands for the IndexError of an empty list
SplitFirst(s) == TakeToken(LStrip(s))

\* str.startswith(ch)
StartsWith(s, ch) == s # <<>> /\ s[1] = ch

\* ch in str
Contains(s, ch) == \E i \in 1..Len(s) : s[i] = ch

RECURSIVE SplitTab(_)
\* str.split("\t")
SplitTab(s) ==
    IF ~Contains(s, "\t") THEN <<s>>
    ELSE LET i == CHOOSE j \in 1..Len(s) :
                      s[j] = "\t" /\ \A k \in 1..(j - 1) : s[k] # "\t"
         IN <<SubSeq(s, 1, i - 1)>> \o SplitTab(SubSeq(s, i + 1, Len(s)))

Digits == <<"0", "1", "2", "3", "4", "5", "6", "7", "8", "9">>
DigitVal(c) == (CHOOSE i \in 1..Len(Digits) : Digits[i] = c) - 1

RECURSIVE ParseInt(_)
\* int(str) of a decimal numeral
ParseInt(s) ==
    IF Len(s) = 1 THEN DigitVal(s[1])
    ELSE ParseInt(SubSeq(s, 1, Len(s) - 1)) * Len(Digits) + DigitVal(s[Len(s)])

RECURSIVE IntToStr(_)
\* str(int) of a natural number
IntToStr(n) ==
    IF n < Len(Digits) THEN <<Digits[n + 1]>>
    ELSE IntToStr(n \div Len(Digits)) \o <<Digits[(n % Len(Digits)) + 1]>>

\* s[::-1]
Reverse(s) == [i \in 1..Len(s) |-> s[Len(s) + 1 - i]]

\* a table that complements lower case too
maketrans_any_case(c) ==
    CASE c \in {"A", "a"} -> "T"
      [] c \in {"T", "t"} -> "A"
      [] c \in {"G", "g"} -> "C"
      [] c \in {"C", "c"} -> "G"
      [] OTHER -> c

\* the table of str.maketrans('ATGC', 'TACG')
maketrans(c) ==
    CASE c = "A" -> "T"
      [] c = "T" -> "A"
      [] c = "G" -> "C"
      [] c = "C" -> "G"
      [] OTHER -> c

\* str.translate(comp)
translate(s) == [i \in 1..Len(s) |-> maketrans(s[i])]

\* one bound of a slice, as Python normalises it against the length n
SliceIndex(i, n) ==
    IF i < 0 THEN (IF i + n < 0 THEN 0 ELSE i + n)
    ELSE (IF i > n THEN n ELSE i)

\* s[a:b]
PySlice(s, a, b) ==
    LET lo == SliceIndex(a, Len(s))
        hi == SliceIndex(b, Len(s))
    IN IF hi <= lo THEN <<>> ELSE SubSeq(s, lo + 1, hi)

RECURSIVE Insert(_, _)
Insert(x, s) ==
    IF s = <<>> THEN <<x>>
    ELSE IF x <= Head(s) THEN <<x>> \o s
    ELSE <<Head(s)>> \o Insert(x, Tail(s))

RECURSIVE Sort(_)
\* list.sort() of a list of integers
Sort(s) == IF s = <<>> THEN <<>> ELSE Insert(Head(s), Sort(Tail(s)))

(***************************************************************************)
(* Python dict operations on insertion-ordered entry lists.                *)
(***************************************************************************)
DictHas(d, k) == \E i \in 1..Len(d) : d[i].id = k
DictIdx(d, k) == CHOOSE i \in 1..Len(d) : d[i].id = k
DictGet(d, k) == d[DictIdx(d, k)]
\* d[k] = v: a key already present keeps its place
DictSet(d, k, v) ==
    IF DictHas(d, k) THEN [d EXCEPT ![DictIdx(d, k)] = v] ELSE Append(d, v)
\* for k in ks: d.pop(k, None)
DictPopAll(d, ks) == SelectSeq(d, LAMBDA e : ~InSeq(e.id, ks))

(***************************************************************************)
(* The parsers.  A parser state carries ok = FALSE once the Python code    *)
(* has raised (no identifier before the first sequence line, an empty      *)
(* header).                                                                *)
(***************************************************************************)
NewEntry(k) == [id |-> k, seq |-> <<>>, qual |-> <<>>]

RECURSIVE parse_fasta_loop(_, _)
parse_fasta_loop(lines, st) ==
    IF lines = <<>> \/ ~st.ok THEN st
    ELSE LET line == Head(lines) IN
         IF StartsWith(line, ">")
         THEN LET seqId == SplitFirst(Replace(Strip(line), ">")) IN
              IF seqId = <<>> THEN [st EXCEPT !.ok = FALSE]
              ELSE parse_fasta_loop(Tail(lines),
                       [st EXCEPT !.dict = DictSet(@, seqId, NewEntry(seqId)),
                                  !.seqId = seqId, !.hasId = TRUE])
         ELSE IF ~st.hasId THEN [st EXCEPT !.ok = FALSE]
              ELSE parse_fasta_loop(Tail(lines),
                       [st EXCEPT !.dict[DictIdx(st.dict, st.seqId)].seq =
                                      @ \o Strip(line)])

parse_fasta(lines) ==
    parse_fasta_loop(lines,
        [dict |-> <<>>, seqId |-> <<>>, hasId |-> FALSE, ok |-> TRUE])

\* the test of the if that opens a FASTQ record
IsFastqHeader(line) == StartsWith(line, "@") /\ ~Contains(line, "~")

RECURSIVE parse_fastq_loop(_, _)
parse_fastq_loop(lines, st) ==
    IF lines = <<>> \/ ~st.ok THEN st
    ELSE LET line == Head(lines) IN
         IF IsFastqHeader(line)
         THEN LET seqId == SplitFirst(Replace(Strip(line), "@")) IN
              IF seqId = <<>> THEN [st EXCEPT !.ok = FALSE]
              ELSE parse_fastq_loop(Tail(lines),
                       [st EXCEPT !.dict = DictSet(@, seqId, NewEntry(seqId)),
                                  !.seqId = seqId, !.hasId = TRUE,
                                  !.complementary_lines = <<>>])
         ELSE IF ~st.hasId THEN [st EXCEPT !.ok = FALSE]
              ELSE LET cl == Append(st.complementary_lines, Strip(line))
                       i == DictIdx(st.dict, st.seqId)
                   IN parse_fastq_loop(Tail(lines),
                          IF Len(cl) = 3
                          THEN [st EXCEPT !.complementary_lines = cl,
                                          !.dict[i].seq = @ \o cl[1],
                                          !.dict[i].qual = @ \o cl[3]]
                          ELSE [st EXCEPT !.complementary_lines = cl])

parse_fastq(lines) ==
    parse_fastq_loop(lines,
        [dict |-> <<>>, seqId |-> <<>>, hasId |-> FALSE, ok |-> TRUE,
         complementary_lines |-> <<>>])

\* __main__: the parser args.file_type selects
parse_input(ft, lines) ==
    IF ft = "fasta" THEN parse_fasta(lines) ELSE parse_fastq(lines)

RECURSIVE parse_blast_file_strand(_)
\* rev_comp.py: one strand per identifier, the last row wins
parse_blast_file_strand(lines) ==
    IF lines = <<>> THEN <<>>
    ELSE LET d == parse_blast_file_strand(SubSeq(lines, 1, Len(lines) - 1))
             line == SplitTab(Strip(lines[Len(lines)]))
             seqId == line[1]
             strand == line[2]
         IN DictSet(d, seqId, [id |-> seqId, strand |-> strand])

RECURSIVE parse_blast_file_pos_set(_)
\* a parser that keeps a position once, however many rows repeat it
parse_blast_file_pos_set(lines) ==
    IF lines = <<>> THEN <<>>
    ELSE LET d == parse_blast_file_pos_set(SubSeq(lines, 1, Len(lines) - 1))
             line == SplitTab(Strip(lines[Len(lines)]))
             seqId == line[1]
             p == ParseInt(line[2])
         IN IF ~DictHas(d, seqId)
            THEN Append(d, [id |-> seqId, pos |-> <<p>>])
            ELSE IF InSeq(p, DictGet(d, seqId).pos) THEN d
            ELSE [d EXCEPT ![DictIdx(d, seqId)].pos = Append(@, p)]

RECURSIVE parse_blast_file_pos(_)
\* rotate.py: the positions of an identifier, one list item per row
parse_blast_file_pos(lines) ==
    IF lines = <<>> THEN <<>>
    ELSE LET d == parse_blast_file_pos(SubSeq(lines, 1, Len(lines) - 1))
             line == SplitTab(Strip(lines[Len(lines)]))
             seqId == line[1]
             p == ParseInt(line[2])
         IN IF ~DictHas(d, seqId)
            THEN Append(d, [id |-> seqId, pos |-> <<p>>])
            ELSE [d EXCEPT ![DictIdx(d, seqId)].pos = Append(@, p)]

(***************************************************************************)
(* The transforms.                                                         *)
(***************************************************************************)
Minus == <<"m", "i", "n", "u", "s">>
Plus == <<"p", "l", "u", "s">>

\* the body of the minus-strand branch
rev_comp_entry(e, ft) ==
    [e EXCEPT !.seq = Reverse(translate(e.seq)),
              !.qual = IF ft = "fastq" THEN Reverse(e.qual) ELSE e.qual]

RECURSIVE reverse_complement_loop(_, _, _, _)
reverse_complement_loop(i, st, bd, ft) ==
    IF i > Len(st.fileDict) THEN st
    ELSE LET e == st.fileDict[i] IN
         IF DictHas(bd, e.id)
         THEN IF DictGet(bd, e.id).strand = Minus
              THEN reverse_complement_loop(i + 1,
                       [st EXCEPT !.idSeqRevComp = Append(@, e.id),
                                  !.fileDict[i] = rev_comp_entry(e, ft)],
                       bd, ft)
              ELSE reverse_complement_loop(i + 1, st, bd, ft)
         ELSE reverse_complement_loop(i + 1,
                  [st EXCEPT !.idNotBlast = Append(@, e.id)], bd, ft)

reverse_complement(fd, bd, ft) ==
    LET st == reverse_complement_loop(1,
                  [fileDict |-> fd, idSeqRevComp |-> <<>>, idNotBlast |-> <<>>],
                  bd, ft)
    IN [st EXCEPT !.fileDict = DictPopAll(@, st.idNotBlast)]

\* a rotation that takes the positions in row order, unsorted
rotate_entry_unsorted(e, pos, ft) ==
    LET start2 == pos[2] - 1
        start3 == pos[3] - 1
    IN [e EXCEPT !.seq = PySlice(e.seq, start2, start3),
                 !.qual = IF ft = "fastq" THEN PySlice(e.qual, start2, start3)
                          ELSE e.qual]

\* a rotation that leaves the quality string whole
rotate_entry_seq_only(e, pos, ft) ==
    LET sorted == Sort(pos)
        start2 == sorted[2] - 1
        start3 == sorted[3] - 1
    IN [e EXCEPT !.seq = PySlice(e.seq, start2, start3)]

\* the body of the branch of an identifier the blast file names
rotate_entry(e, pos, ft) ==
    LET sorted == Sort(pos)
        start2 == sorted[2] - 1
        start3 == sorted[3] - 1
    IN [e EXCEPT !.seq = PySlice(e.seq, start2, start3),
                 !.qual = IF ft = "fastq" THEN PySlice(e.qual, start2, start3)
                          ELSE e.qual]

RECURSIVE rotate_loop(_, _, _, _)
\* ok = FALSE: pos[1] or pos[2] raised IndexError
rotate_loop(i, st, bd, ft) ==
    IF i > Len(st.fileDict) \/ ~st.ok THEN st
    ELSE LET e == st.fileDict[i] IN
         IF DictHas(bd, e.id)
         THEN IF Len(DictGet(bd, e.id).pos) < 3
              THEN [st EXCEPT !.ok = FALSE]
              ELSE rotate_loop(i + 1,
                       [st EXCEPT !.fileDict[i] =
                                      rotate_entry(e, DictGet(bd, e.id).pos, ft)],
                       bd, ft)
         ELSE rotate_loop(i + 1,
                  [st EXCEPT !.idNotBlast = Append(@, e.id)], bd, ft)

rotate(fd, bd, ft) ==
    LET st == rotate_loop(1,
                  [fileDict |-> fd, idNotBlast |-> <<>>, ok |-> TRUE], bd, ft)
    IN IF st.ok THEN [st EXCEPT !.fileDict = DictPopAll(@, st.idNotBlast)]
       ELSE st

(***************************************************************************)
(* The writers.                                                            *)
(***************************************************************************)
\* the lines printed for one entry by rev_comp.py and rotate.py
record_lines(e, ft) ==
    IF ft = "fasta" THEN << <<">">> \o e.id, e.seq >>
    ELSE << <<"@">> \o e.id, e.seq, <<"+">>, e.qual >>

\* the lines printed for one entry by triple.py
triple_lines(e, ft) ==
    IF ft = "fasta" THEN << <<">">> \o e.id, e.seq \o e.seq \o e.seq >>
    ELSE << <<"@">> \o e.id, e.seq \o e.seq \o e.seq, <<"+">>,
            e.qual \o e.qual \o e.qual >>

RECURSIVE write_sequences(_, _)
write_sequences(fd, ft) ==
    IF fd = <<>> THEN <<>>
    ELSE record_lines(Head(fd), ft) \o write_sequences(Tail(fd), ft)

RECURSIVE write_tripled(_, _)
write_tripled(fd, ft) ==
    IF fd = <<>> THEN <<>>
    ELSE triple_lines(Head(fd), ft) \o write_tripled(Tail(fd), ft)

HdrRevComp == "*---------- Sequences reverse complemented ("
HdrNoStrand == "*---------- Sequences where strand was not find ("
HdrNoPos ==
    "*---------- Sequences where position of the gene for rotation was not find ("
HdrEnd == ") : "

\* print("\n".join(ids)): one line per identifier, one empty line for none
JoinLines(ids) == IF ids = <<>> THEN << <<>> >> ELSE ids

\* print(header + str(len(ids)) + ") : ") and print("\n".join(ids))
log_section(header, ids) ==
    << <<header>> \o IntToStr(Len(ids)) \o <<HdrEnd>> >> \o JoinLines(ids)

\* the log of rev_comp.py; the second header is printed after a newline
write_log_rev_comp(rc, nb) ==
    log_section(HdrRevComp, rc) \o << <<>> >> \o log_section(HdrNoStrand, nb)

\* the log of rotate.py; its header is printed after a newline
write_log_rotate(nb) == << <<>> >> \o log_section(HdrNoPos, nb)

(***************************************************************************)
(* Paths and the rejected.count.txt files.                                 *)
(***************************************************************************)
Cwd == <<"/", "w">>
RejectedName == "rejected.count.txt"

LastIndexOf(s, ch) ==
    IF Contains(s, ch)
    THEN CHOOSE i \in 1..Len(s) : s[i] = ch /\ \A j \in (i + 1)..Len(s) : s[j] # ch
    ELSE 0

RECURSIVE RStripSlash(_)
RStripSlash(s) ==
    IF s # <<>> /\ s[Len(s)] = "/" THEN RStripSlash(SubSeq(s, 1, Len(s) - 1)) ELSE s

\* os.path.split
os_path_split(p) ==
    LET i == LastIndexOf(p, "/")
        head == SubSeq(p, 1, i)
    IN [head |-> IF \E k \in 1..Len(head) : head[k] # "/"
                 THEN RStripSlash(head) ELSE head,
        tail |-> SubSeq(p, i + 1, Len(p))]

\* os.path.splitext
os_path_splitext(p) ==
    LET sep == LastIndexOf(p, "/")
        dot == LastIndexOf(p, ".")
    IN IF dot > sep /\ \E k \in (sep + 1)..(dot - 1) : p[k] # "."
       THEN [root |-> SubSeq(p, 1, dot - 1), ext |-> SubSeq(p, dot, Len(p))]
       ELSE [root |-> p, ext |-> <<>>]

RECURSIVE Collapse(_)
Collapse(p) ==
    IF Len(p) < 2 THEN p
    ELSE IF p[1] = "/" /\ p[2] = "/" THEN Collapse(Tail(p))
    ELSE <<p[1]>> \o Collapse(Tail(p))

\* the file open(p) names: a relative path starts at the working directory
AbsPath(p) == Collapse(IF StartsWith(p, "/") THEN p ELSE Cwd \o <<"/">> \o p)

\* the path rotate.py opens for its summary line
rejected_path(name) == os_path_split(name).head \o <<"/", RejectedName>>

\* the summary line rotate.py prints
rejected_line(name, nb) ==
    os_path_splitext(os_path_split(name).tail).root \o <<"\t">> \o IntToStr(Len(nb))

LogNames ==
    { <<"r", ".", "l">>,
      <<"o", "/", "r", ".", "l">>,
      <<"/", "t", "/", "r", ".", "l">>,
      <<"o", "/", "q">> }

FsPaths ==
    UNION { { AbsPath(rejected_path(l)),
              AbsPath(os_path_split(AbsPath(l)).head \o <<"/", RejectedName>>) }
            : l \in LogNames }

\* open(path, "a") fails when the directory may not be written
CanAppend(path, rw) == os_path_split(path).head # <<"/">> \/ rw

\* with open(outputPath + "/rejected.count.txt", "a"): print(...)
\* The line is buffered and reaches the file in one write of an O_APPEND
\* descriptor when the with block closes it.
append_rejected(fs, name, nb) ==
    [fs EXCEPT ![AbsPath(rejected_path(name))] = Append(@, rejected_line(name, nb))]

(***************************************************************************)
(* Input files.                                                            *)
(***************************************************************************)
IdA == <<"a">>
IdB == <<"b">>

SeqLong ==
    <<"A", "T", "G", "C", "N", "a", "A", "A", "T", "T",
      "G", "G", "C", "C", "N", "t", "A", "C", "G", "T">>
\* starts with "@" and holds "~"
QualLong ==
    <<"@", "~", "I", "J", "K", "L", "M", "N", "O", "P",
      "Q", "R", "S", "T", "U", "V", "W", "X", "Y", "Z">>
SeqShort == <<"G", "A", "T", "T", "A", "C", "A", "N", "c", "C">>
QualShort == <<"B", "I", "H", "J", "G", "K", "F", "L", "E", "M">>
\* starts with "@" and holds no "~"
QualAt == <<"@", "I", "H", "J", "G", "K", "F", "L", "E", "M">>
SeqOdd == <<"C", "C", "G", "G", "A", "A", "T", "T", "N", "N", "g", "t">>
\* shorter than its sequence
QualOdd == <<"F", "G", "H", "I", "J", "K">>

RecLong == [id |-> IdA, desc |-> <<>>, seq |-> SeqLong, qual |-> QualLong]
RecOdd == [id |-> IdA, desc |-> <<>>, seq |-> SeqOdd, qual |-> QualOdd]
RecShort == [id |-> IdA, desc |-> <<" ", "x">>, seq |-> SeqShort, qual |-> QualShort]
RecAt == [id |-> IdB, desc |-> <<>>, seq |-> SeqShort, qual |-> QualAt]
RecordVals == {RecLong, RecOdd, RecShort, RecAt}

Pipelines == {"rev_comp", "rotate", "triple"}
FileTypes == {"fasta", "fastq"}

StrandRows ==
    { [id |-> IdA, val |-> Minus], [id |-> IdA, val |-> Plus],
      [id |-> IdB, val |-> Minus] }
PosRows ==
    { [id |-> IdA, val |-> <<"5">>, n |-> 5], [id |-> IdA, val |-> <<"9">>, n |-> 9],
      [id |-> IdA, val |-> <<"1", "2">>, n |-> 12],
      [id |-> IdB, val |-> <<"9">>, n |-> 9] }
RowVals(pl) ==
    IF pl = "rev_comp" THEN StrandRows ELSE IF pl = "rotate" THEN PosRows ELSE {}

\* a FASTA record: the header, then the sequence on two lines
fasta_record(r) ==
    LET h == Len(r.seq) \div 2
    IN << <<">">> \o r.id \o r.desc,
          SubSeq(r.seq, 1, h), SubSeq(r.seq, h + 1, Len(r.seq)) >>

\* a FASTQ record: header, sequence, "+", quality
fastq_record(r) == << <<"@">> \o r.id \o r.desc, r.seq, <<"+">>, r.qual >>

RECURSIVE RenderInput(_, _)
RenderInput(rs, ft) ==
    IF rs = <<>> THEN <<>>
    ELSE (IF ft = "fasta" THEN fasta_record(Head(rs)) ELSE fastq_record(Head(rs)))
         \o RenderInput(Tail(rs), ft)

\* a blast file: identifier, tab, value
RenderBlast(rows) == [i \in 1..Len(rows) |-> rows[i].id \o <<"\t">> \o rows[i].val]

\* SpecConc: the command lines an invocation of rotate.py may be given
Scenarios ==
    << [file_type |-> "fasta", records |-> <<RecLong>>,
        rows |-> << [id |-> IdA, val |-> <<"5">>, n |-> 5],
                    [id |-> IdA, val |-> <<"9">>, n |-> 9],
                    [id |-> IdA, val |-> <<"1", "2">>, n |-> 12] >>],
       [file_type |-> "fastq", records |-> <<RecLong, RecAt>>,
        rows |-> << [id |-> IdA, val |-> <<"5">>, n |-> 5],
                    [id |-> IdA, val |-> <<"9">>, n |-> 9],
                    [id |-> IdA, val |-> <<"1", "2">>, n |-> 12] >>],
       [file_type |-> "fasta", records |-> <<RecLong>>,
        rows |-> << [id |-> IdA, val |-> <<"5">>, n |-> 5] >>] >>

Procs == 1..MaxProcs

(***************************************************************************)
(* One invocation (Spec).                                                  *)
(***************************************************************************)
NoFiles == [p \in FsPaths |-> <<>>]

ConcIdle ==
    /\ cpc = <<>> /\ clog = <<>> /\ cscen = <<>> /\ cfd = <<>>
    /\ cnot = <<>> /\ cout = <<>> /\ clogout = <<>>

Init ==
    /\ pipeline \in Pipelines
    /\ file_type \in FileTypes
    /\ records \in SeqsUpTo(RecordVals, MaxRecords)
    /\ hint_rows \in SeqsUpTo(RowVals(pipeline), MaxRows)
    /\ input_file = RenderInput(records, file_type)
    /\ blast_file = RenderBlast(hint_rows)
    /\ pc = "start"
    /\ fileDict = <<>> /\ parsedDict = <<>> /\ blastDict = <<>>
    /\ idSeqRevComp = <<>> /\ idNotBlast = <<>>
    /\ output_file = <<>> /\ output_log = <<>>
    /\ log_name = <<>>
    /\ files = NoFiles
    /\ root_writable = TRUE
    /\ ConcIdle

\* __main__: parse_fasta or parse_fastq
ParseInput ==
    /\ pc = "start"
    /\ LET r == parse_input(file_type, input_file) IN
       IF r.ok THEN fileDict' = r.dict /\ parsedDict' = r.dict /\ pc' = "parsed"
       ELSE fileDict' = fileDict /\ parsedDict' = parsedDict /\ pc' = "crashed"
    /\ UNCHANGED <<pipeline, file_type, records, hint_rows, input_file,
                   blast_file, blastDict, idSeqRevComp, idNotBlast,
                   output_file, output_log, log_name, files, root_writable, cvars>>

\* rev_comp.py __main__: parse_blast_file
ParseBlastStrand ==
    /\ pc = "parsed" /\ pipeline = "rev_comp"
    /\ blastDict' = parse_blast_file_strand(blast_file)
    /\ pc' = "hinted"
    /\ UNCHANGED <<parsedDict, pipeline, file_type, records, hint_rows, input_file,
                   blast_file, fileDict, idSeqRevComp, idNotBlast,
                   output_file, output_log, log_name, files, root_writable, cvars>>

\* rotate.py __main__: parse_blast_file
ParseBlastPos ==
    /\ pc = "parsed" /\ pipeline = "rotate"
    /\ blastDict' = parse_blast_file_pos(blast_file)
    /\ pc' = "hinted"
    /\ UNCHANGED <<parsedDict, pipeline, file_type, records, hint_rows, input_file,
                   blast_file, fileDict, idSeqRevComp, idNotBlast,
                   output_file, output_log, log_name, files, root_writable, cvars>>

\* rev_comp.py __main__: reverse_complement
ReverseComplement ==
    /\ pc = "hinted" /\ pipeline = "rev_comp"
    /\ LET r == reverse_complement(fileDict, blastDict, file_type) IN
       /\ fileDict' = r.fileDict
       /\ idSeqRevComp' = r.idSeqRevComp
       /\ idNotBlast' = r.idNotBlast
    /\ pc' = "transformed"
    /\ UNCHANGED <<parsedDict, pipeline, file_type, records, hint_rows, input_file,
                   blast_file, blastDict, output_file, output_log, log_name,
                   files, root_writable, cvars>>

\* rotate.py __main__: rotate; an IndexError ends the run
Rotate ==
    /\ pc = "hinted" /\ pipeline = "rotate"
    /\ LET r == rotate(fileDict, blastDict, file_type) IN
       IF r.ok
       THEN fileDict' = r.fileDict /\ idNotBlast' = r.idNotBlast
            /\ pc' = "transformed"
       ELSE fileDict' = fileDict /\ idNotBlast' = idNotBlast /\ pc' = "crashed"
    /\ UNCHANGED <<parsedDict, pipeline, file_type, records, hint_rows, input_file,
                   blast_file, blastDict, idSeqRevComp, output_file, output_log,
                   log_name, files, root_writable, cvars>>

\* rev_comp.py __main__: write_output_files
WriteRevComp ==
    /\ pc = "transformed" /\ pipeline = "rev_comp"
    /\ output_file' = write_sequences(fileDict, file_type)
    /\ output_log' = write_log_rev_comp(idSeqRevComp, idNotBlast)
    /\ pc' = "done"
    /\ UNCHANGED <<parsedDict, pipeline, file_type, records, hint_rows, input_file,
                   blast_file, fileDict, blastDict, idSeqRevComp, idNotBlast,
                   log_name, files, root_writable, cvars>>

\* rotate.py __main__: write_output_files, for the log name of the command line
WriteRotate ==
    /\ pc = "transformed" /\ pipeline = "rotate"
    /\ \E l \in LogNames :
        /\ log_name' = l
        /\ output_file' = write_sequences(fileDict, file_type)
        /\ output_log' = write_log_rotate(idNotBlast)
        /\ IF CanAppend(AbsPath(rejected_path(l)), root_writable)
           THEN files' = append_rejected(files, l, idNotBlast) /\ pc' = "done"
           ELSE files' = files /\ pc' = "crashed"
    /\ UNCHANGED <<parsedDict, pipeline, file_type, records, hint_rows, input_file,
                   blast_file, fileDict, blastDict, idSeqRevComp, idNotBlast,
                   root_writable, cvars>>

\* triple.py __main__: write_output_files
WriteTriple ==
    /\ pc = "parsed" /\ pipeline = "triple"
    /\ output_file' = write_tripled(fileDict, file_type)
    /\ pc' = "done"
    /\ UNCHANGED <<parsedDict, pipeline, file_type, records, hint_rows, input_file,
                   blast_file, fileDict, blastDict, idSeqRevComp, idNotBlast,
                   output_log, log_name, files, root_writable, cvars>>

Next ==
    \/ ParseInput
    \/ ParseBlastStrand
    \/ ParseBlastPos
    \/ ReverseComplement
    \/ Rotate
    \/ WriteRevComp
    \/ WriteRotate
    \/ WriteTriple

Spec == Init /\ [][Next]_vars

(***************************************************************************)
(* Several invocations of rotate.py sharing the file system (SpecConc).    *)
(* Invocation p is given the command line Scenarios[cscen[p]] and the log  *)
(* name clog[p].                                                           *)
(***************************************************************************)
MainIdle ==
    /\ pipeline = "rotate" /\ file_type = "fasta"
    /\ records = <<>> /\ hint_rows = <<>>
    /\ input_file = <<>> /\ blast_file = <<>>
    /\ pc = "idle"
    /\ fileDict = <<>> /\ parsedDict = <<>> /\ blastDict = <<>>
    /\ idSeqRevComp = <<>> /\ idNotBlast = <<>>
    /\ output_file = <<>> /\ output_log = <<>>
    /\ log_name = <<>>

ConcInit ==
    /\ MainIdle
    /\ files = NoFiles
    /\ root_writable \in BOOLEAN
    /\ cpc = [p \in Procs |-> "start"]
    /\ clog \in [Procs -> LogNames]
    /\ cscen \in [Procs -> 1..Len(Scenarios)]
    /\ cfd = [p \in Procs |-> <<>>]
    /\ cnot = [p \in Procs |-> <<>>]
    /\ cout = [p \in Procs |-> <<>>]
    /\ clogout = [p \in Procs |-> <<>>]

\* __main__ up to the return of rotate
CRotate(p) ==
    /\ cpc[p] = "start"
    /\ LET sc == Scenarios[cscen[p]]
           parsed == parse_input(sc.file_type, RenderInput(sc.records, sc.file_type))
           r == rotate(parsed.dict, parse_blast_file_pos(RenderBlast(sc.rows)),
                       sc.file_type)
       IN IF parsed.ok /\ r.ok
          THEN /\ cfd' = [cfd EXCEPT ![p] = r.fileDict]
               /\ cnot' = [cnot EXCEPT ![p] = r.idNotBlast]
               /\ cpc' = [cpc EXCEPT ![p] = "rotated"]
          ELSE /\ cfd' = cfd /\ cnot' = cnot
               /\ cpc' = [cpc EXCEPT ![p] = "crashed"]
    /\ UNCHANGED <<mvars, files, root_writable, clog, cscen, cout, clogout>>

\* write_output_files, the append to rejected.count.txt included
CWrite(p) ==
    /\ cpc[p] = "rotated"
    /\ cout' = [cout EXCEPT ![p] =
                    write_sequences(cfd[p], Scenarios[cscen[p]].file_type)]
    /\ clogout' = [clogout EXCEPT ![p] = write_log_rotate(cnot[p])]
    /\ IF CanAppend(AbsPath(rejected_path(clog[p])), root_writable)
       THEN /\ files' = append_rejected(files, clog[p], cnot[p])
            /\ cpc' = [cpc EXCEPT ![p] = "done"]
       ELSE /\ files' = files
            /\ cpc' = [cpc EXCEPT ![p] = "crashed"]
    /\ UNCHANGED <<mvars, root_writable, clog, cscen, cfd, cnot>>

ConcNext ==
    \/ \E p \in Procs : CRotate(p)
    \/ \E p \in Procs : CWrite(p)

SpecConc == ConcInit /\ [][ConcNext]_vars

(***************************************************************************)
(* What the properties below read: the written output as records, the      *)
(* command line's files as the records and rows they were written from,    *)
(* and the not-found section of the log.                                   *)
(***************************************************************************)
Terminal == pc \in {"done", "crashed"}
Transformed == pc \in {"transformed", "done"}
IsFastq == file_type = "fastq"

\* the collection the parser handed to the transform
Parsed == parsedDict

OutPer == IF IsFastq THEN 4 ELSE 2
OutCount == Len(output_file) \div OutPer
OutId(k) == Tail(output_file[(k - 1) * OutPer + 1])
OutSeq(k) == output_file[(k - 1) * OutPer + 2]
OutQual(k) == output_file[(k - 1) * OutPer + 4]
OutIds == [k \in 1..OutCount |-> OutId(k)]
\* the written record of identifier id carries sequence sq and quality ql
Written(id, sq, ql) ==
    \E k \in 1..OutCount :
        OutId(k) = id /\ OutSeq(k) = sq /\ (IsFastq => OutQual(k) = ql)

RecIds == [i \in 1..Len(records) |-> records[i].id]

RECURSIVE FirstOccurrences(_)
FirstOccurrences(s) ==
    IF s = <<>> THEN <<>>
    ELSE LET r == FirstOccurrences(SubSeq(s, 1, Len(s) - 1))
         IN IF InSeq(s[Len(s)], r) THEN r ELSE Append(r, s[Len(s)])

UniqueIds == Len(FirstOccurrences(RecIds)) = Len(records)

HintIds == {hint_rows[i].id : i \in 1..Len(hint_rows)}
RowsOf(id) == SelectSeq(hint_rows, LAMBDA r : r.id = id)
PositionsOf(id) == [i \in 1..Len(RowsOf(id)) |-> RowsOf(id)[i].n]
LastStrand(id) == RowsOf(id)[Len(RowsOf(id))].val

IsNotFoundHeader(line) == line # <<>> /\ line[1] \in {HdrNoStrand, HdrNoPos}
HasNotFoundSection == \E i \in 1..Len(output_log) : IsNotFoundHeader(output_log[i])
NotFoundAt == CHOOSE i \in 1..Len(output_log) : IsNotFoundHeader(output_log[i])
LoggedNotFound ==
    SelectSeq(SubSeq(output_log, NotFoundAt + 1, Len(output_log)),
              LAMBDA l : l # <<>>)
PrintedCount ==
    LET h == output_log[NotFoundAt] IN ParseInt(SubSeq(h, 2, Len(h) - 1))

\* the characters of s at the 0-based indices a <= i < b
Substring(s, a, b) ==
    LET hi == IF b < Len(s) THEN b ELSE Len(s)
    IN IF hi <= a THEN <<>> ELSE [k \in 1..(hi - a) |-> s[a + k]]

\* the k-th smallest item of a list of integers, items counted as often as they occur
KthSmallest(pos, k) ==
    CHOOSE v \in {pos[i] : i \in 1..Len(pos)} :
        /\ Cardinality({i \in 1..Len(pos) : pos[i] < v}) < k
        /\ Cardinality({i \in 1..Len(pos) : pos[i] <= v}) >= k

\* the k-th smallest of the distinct values of a list of integers
KthDistinct(pos, k) ==
    CHOOSE v \in {pos[i] : i \in 1..Len(pos)} :
        Cardinality({w \in {pos[i] : i \in 1..Len(pos)} : w < v}) = k - 1

Distinct(pos) == Cardinality({pos[i] : i \in 1..Len(pos)})

Complement(c) ==
    IF c = "A" THEN "T" ELSE IF c = "T" THEN "A"
    ELSE IF c = "G" THEN "C" ELSE IF c = "C" THEN "G" ELSE c
ReversalOf(s) == [i \in 1..Len(s) |-> s[Len(s) + 1 - i]]
RevCompOf(s) == [i \in 1..Len(s) |-> Complement(s[Len(s) + 1 - i])]

FewPositions(id) == Len(RowsOf(id)) \in {1, 2}

(***************************************************************************)
(* C1.  rotate: a sequence whose identifier has 1 or 2 rows in the         *)
(* position table is dropped from the output and listed in the not-found   *)
(* log; the run is not aborted and the sequences with at least 3 rows are  *)
(* still written.                                                          *)
(***************************************************************************)
C1_FewPositionsDropped ==
    (pipeline = "rotate" /\ Terminal
         /\ \E i \in 1..Len(records) : FewPositions(records[i].id))
    => /\ pc = "done"
       /\ \A i \in 1..Len(records) :
              /\ FewPositions(records[i].id)
                     => /\ ~InSeq(records[i].id, OutIds)
                        /\ InSeq(records[i].id, LoggedNotFound)
              /\ Len(RowsOf(records[i].id)) >= 3 => InSeq(records[i].id, OutIds)

(***************************************************************************)
(* C2.  rev_comp and rotate: when the run has ended, every identifier of   *)
(* the sequence file that the hint table does not name is absent from the  *)
(* written output and listed in the not-found section of the log, whose    *)
(* printed count is the number of identifiers it lists.                    *)
(***************************************************************************)
C2_AbsentDroppedAndLogged ==
    (pipeline \in {"rev_comp", "rotate"} /\ Terminal)
    => \A i \in 1..Len(records) :
           records[i].id \notin HintIds
               => /\ ~InSeq(records[i].id, OutIds)
                  /\ HasNotFoundSection
                  /\ InSeq(records[i].id, LoggedNotFound)
                  /\ PrintedCount = Len(LoggedNotFound)

(***************************************************************************)
(* C3.  reverse_complement: a sequence whose strand is "minus" becomes the *)
(* reversal of its complement (A<->T, G<->C, every other character kept),  *)
(* its quality the plain reversal in FASTQ mode, and it is listed as       *)
(* reverse-complemented; a sequence whose strand is "plus" is kept with    *)
(* sequence and quality unchanged and is not listed; both are written.     *)
(***************************************************************************)
C3_ReverseComplement ==
    (pipeline = "rev_comp" /\ Transformed)
    => \A i \in 1..Len(Parsed) :
           LET e == Parsed[i] IN
           e.id \in HintIds
               => /\ DictHas(fileDict, e.id)
                  /\ LastStrand(e.id) = Minus
                         => /\ DictGet(fileDict, e.id).seq = RevCompOf(e.seq)
                            /\ IsFastq
                                   => DictGet(fileDict, e.id).qual = ReversalOf(e.qual)
                            /\ InSeq(e.id, idSeqRevComp)
                            /\ pc = "done"
                                   => Written(e.id, RevCompOf(e.seq), ReversalOf(e.qual))
                  /\ LastStrand(e.id) = Plus
                         => /\ DictGet(fileDict, e.id).seq = e.seq
                            /\ DictGet(fileDict, e.id).qual = e.qual
                            /\ ~InSeq(e.id, idSeqRevComp)
                            /\ pc = "done" => Written(e.id, e.seq, e.qual)

\* a FASTQ run that reverse-complemented the 20-base sequence (N and lower
\* case in it) and reversed its quality
C3_Witness ==
    /\ pipeline = "rev_comp" /\ IsFastq /\ pc = "done"
    /\ records = <<RecLong>>
    /\ idSeqRevComp = <<IdA>>
    /\ OutSeq(1) = RevCompOf(SeqLong) /\ OutQual(1) = ReversalOf(QualLong)

(***************************************************************************)
(* C4.  rotate: for an identifier with at least 3 rows, in any row order,  *)
(* the output is the 0-based half-open substring [p2-1, p3-1) of the       *)
(* sequence, p2 and p3 the second and third smallest positions, and the    *)
(* quality substring over the same range in FASTQ mode; positions 5, 12, 9 *)
(* on a sequence of length at least 20 give the substring [8, 11).         *)
(***************************************************************************)
C4_RotateSubstring ==
    (pipeline = "rotate" /\ Transformed)
    => \A i \in 1..Len(Parsed) :
           LET e == Parsed[i]
               pos == PositionsOf(e.id)
           IN Len(pos) >= 3
               => LET p2 == KthSmallest(pos, 2)
                      p3 == KthSmallest(pos, 3)
                      sq == Substring(e.seq, p2 - 1, p3 - 1)
                      ql == Substring(e.qual, p2 - 1, p3 - 1)
                  IN /\ DictHas(fileDict, e.id)
                     /\ DictGet(fileDict, e.id).seq = sq
                     /\ IsFastq => DictGet(fileDict, e.id).qual = ql
                     /\ pc = "done" => Written(e.id, sq, ql)
                     /\ (pos = <<5, 12, 9>> /\ Len(e.seq) >= 20)
                            => DictGet(fileDict, e.id).seq
                                   = <<e.seq[9], e.seq[10], e.seq[11]>>

\* rows 5, 12, 9 on the 20-base sequence: bases 8, 9 and 10 are written
C4_Witness ==
    /\ pipeline = "rotate" /\ pc = "done"
    /\ records = <<RecLong>>
    /\ PositionsOf(IdA) = <<5, 12, 9>>
    /\ OutCount = 1 /\ OutSeq(1) = <<"T", "T", "G">>

(***************************************************************************)
(* C5.  triple: every sequence of the input file is written, in order, as  *)
(* the sequence concatenated three times, the quality likewise in FASTQ    *)
(* mode; no identifier is dropped.                                         *)
(***************************************************************************)
C5_TripleEverySequence ==
    (pipeline = "triple" /\ Terminal /\ UniqueIds)
    => /\ pc = "done"
       /\ OutCount = Len(records)
       /\ \A k \in 1..Len(records) :
              LET r == records[k] IN
              /\ OutId(k) = r.id
              /\ OutSeq(k) = r.seq \o r.seq \o r.seq
              /\ IsFastq => OutQual(k) = r.qual \o r.qual \o r.qual

(***************************************************************************)
(* C6.  FASTQ mode, all three transforms: every written record whose       *)
(* parsed input record had sequence and quality of equal length has a      *)
(* quality as long as its sequence, whatever the hint, positions beyond    *)
(* the end of the sequence included.                                       *)
(***************************************************************************)
C6_QualityLength ==
    (IsFastq /\ pc = "done")
    => \A k \in 1..OutCount :
           (/\ DictHas(Parsed, OutId(k))
            /\ Len(DictGet(Parsed, OutId(k)).seq) = Len(DictGet(Parsed, OutId(k)).qual))
               => Len(OutQual(k)) = Len(OutSeq(k))

\* a FASTQ rotation whose third position, 12, lies beyond the 10-base
\* sequence: two bases and two quality characters are written
C6_Witness ==
    /\ pipeline = "rotate" /\ IsFastq /\ pc = "done"
    /\ records = <<RecShort>>
    /\ PositionsOf(IdA) = <<9, 12, 5>>
    /\ OutCount = 1 /\ Len(OutSeq(1)) = 2 /\ OutQual(1) = <<"E", "M">>

(***************************************************************************)
(* C7.  All three pipelines: the identifiers written are the identifiers   *)
(* of the input file in the order of their first occurrence, the dropped   *)
(* ones removed, none reordered, duplicated or added.                      *)
(***************************************************************************)
C7_OrderPreserved ==
    pc = "done"
    => OutIds = SelectSeq(FirstOccurrences(RecIds),
                          LAMBDA id : ~InSeq(id, idNotBlast))

(***************************************************************************)
(* C9.  parse_fastq: on a file of four-line records (header, sequence,     *)
(* "+", quality) it returns one entry per record, with that record's       *)
(* sequence and quality lines, also when a quality line starts with "@".   *)
(***************************************************************************)
C9_FastqParse ==
    (IsFastq /\ pc = "parsed" /\ UniqueIds)
    => fileDict = [i \in 1..Len(records) |->
                      [id |-> records[i].id, seq |-> records[i].seq,
                       qual |-> records[i].qual]]

AllEnded == \A p \in Procs : cpc[p] \in {"done", "crashed"}
\* rejected.count.txt in the directory that holds the log file
SiblingOfLog(l) == AbsPath(os_path_split(AbsPath(l)).head \o <<"/", RejectedName>>)
CompletedIn(path) == {p \in Procs : cpc[p] = "done" /\ SiblingOfLog(clog[p]) = path}
Occurrences(s, x) == Cardinality({i \in 1..Len(s) : s[i] = x})

C8_OneLinePerInvocation ==
    AllEnded
    => \A path \in FsPaths :
           /\ Len(files[path]) = Cardinality(CompletedIn(path))
           /\ \A p \in CompletedIn(path) :
                  Occurrences(files[path], rejected_line(clog[p], cnot[p]))
                      = Cardinality({q \in CompletedIn(path) :
                            rejected_line(clog[q], cnot[q])
                                = rejected_line(clog[p], cnot[p])})

====
